---- MODULE Spec2Model ----
(***************************************************************************)
(* Model of the club-data acquisition pipeline of src/app_flet.py:         *)
(* get_club_data (roster, profile enrichment, paginated match history      *)
(* with retry, reauthentication and cooperative cancellation) and the      *)
(* Stop handler that sets the cancellation flag it polls.                  *)
(*                                                                         *)
(* The worker is sequential; its position is pc.  A step of the worker     *)
(* runs from one external call or poll of stop_event to the next, so the   *)
(* only interleaving is with on_stop_click, which runs on another thread.  *)
(* The interface around it (the button handlers and the threads they      *)
(* start on do_crawl) is followed by a specification of its own, UiSpec.   *)
(* The remote service is the environment: every call's outcome is chosen   *)
(* with \E.  History pages are a function of (player, offset): the page    *)
(* served at an offset is remembered in `served` and served again if the   *)
(* same offset is decoded again.  Offsets count pages: nextOffset is       *)
(* either None or the page after the one requested.                        *)
(***************************************************************************)
EXTENDS Integers, Sequences, FiniteSets, TLC

\* ---------------------------------------------------------------- bounds
\* number of members the roster endpoint returns
RosterSize == 2
\* last page the history endpoint hands out a cursor to
MaxOff == 1
\* number of hits in a page that is not empty
PageHits == 1
\* number of crawl worker threads the interface can start
MaxWorkers == 2
\* number of reauthentications one worker's crawl is followed through
MaxReauth == 1

\* ------------------------------------------------------------- constants
\* Python's None for `offset` (offsets are >= 0)
None == -1

Ids == <<"p1", "p2", "p3", "p4">>

\* the clubName field of the roster entries as the endpoint reports it
ClubNames == <<"club", "club2", "club", "club2">>

Member(i) == [id |-> Ids[i], clubName |-> ClubNames[i]]

\* the club_id argument
club_id == "c1"

\* what get_members_by_club returns on success
Roster == [i \in 1..RosterSize |-> Member(i)]

\* integer values of the max_members / max_matches inputs: a negative one,
\* zero, and every length up to the whole roster
Caps == (0 - 1)..RosterSize

Offsets == 0..MaxOff

\* variant: one more failure is tolerated
max_retries_four == 3 + 1

max_retries == 3

\* ------------------------------------------------------- pure operators
Min(a, b) == IF a < b THEN a ELSE b
Max(a, b) == IF a > b THEN a ELSE b

\* Python s[:k] for an integer k (a negative k counts from the end)
PySlice(s, k) ==
  IF k >= 0 THEN SubSeq(s, 1, Min(k, Len(s)))
  ELSE SubSeq(s, 1, Max(Len(s) + k, 0))

\* `x or 0` for an integer x
OrZero(x) == IF x = 0 THEN 0 ELSE x

\* variant: the slice keeps one entry too many
Truncate_oneMore(s, cap) == PySlice(s, OrZero(cap) + 1)

\* members[: max_members or 0]
Truncate(s, cap) == PySlice(s, OrZero(cap))

\* [str(m["id"]) for m in members[: max_matches or 0]]
PlayerIds(ms, cap) ==
  LET sel == PySlice(ms, OrZero(cap)) IN [i \in 1..Len(sel) |-> sel[i].id]

\* the hits of the page that holds n records of player pid at offset off
Hits(pid, off, n) == [i \in 1..n |-> <<pid, off, i>>]

\* the `limit` sent with every page request: the endpoint answers with at
\* most that many hits
matches_per_player == PageHits

\* a page as decoded by handle_paging: the next cursor, which is the
\* following page or None, and the hit count (the loop only tests whether
\* hits is empty, so a page is empty or full)
Pages(off) ==
  [next : {o \in Offsets : o = off + 1} \cup {None},
   n : {0, matches_per_player}]

EmptyMap == [x \in {} |-> <<>>]

\* sum(len(m) for m in match_history.values())
RECURSIVE SumLens(_, _)
SumLens(mh, keys) ==
  IF keys = {} THEN 0
  ELSE LET k == CHOOSE x \in keys : TRUE
       IN Len(mh[k]) + SumLens(mh, keys \ {k})

\* variant: the new hits are put in front of the list
Extend_prepend(ml, hits) == hits \o ml

\* match_list.extend(hits)
Extend(ml, hits) == ml \o hits

\* variant: the loop condition admits one more retry
LoopCond_le(off, rc) == off # None /\ rc <= max_retries

\* while offset is not None and retry_count < max_retries
LoopCond(off, rc) == off # None /\ rc < max_retries

\* variant: the list is stored whether or not it is empty
StoreHistory_always(mh, pid, ml) ==
  [x \in DOMAIN mh \cup {pid} |-> IF x = pid THEN ml ELSE mh[x]]

\* if match_list: match_history[pid] = match_list
StoreHistory(mh, pid, ml) ==
  IF ml # <<>>
  THEN [x \in DOMAIN mh \cup {pid} |-> IF x = pid THEN ml ELSE mh[x]]
  ELSE mh

\* variant: a failure is charged twice
BumpRetry_twice(rc) == rc + 2

\* retry_count += 1 (after a 403, and in the except clause)
BumpRetry(rc) == rc + 1

\* variant: a fetched page restores the retry budget
AfterSuccess_reset(rc) == 0

\* retry_count after a page that was fetched and decoded: lines 152-161 do
\* not touch it
AfterSuccess(rc) == rc

\* variant: a failed attempt moves on to the next offset
RetryOffset_skip(off) == off + 1

\* the offset the loop retries after a failed attempt
RetryOffset(off) == off

\* variant: the new profile is put in front of the list
AppendProfile_front(pp, m) == <<[id |-> m.id]>> \o pp

\* player_profiles.append(profile), line 105
AppendProfile(pp, m) == Append(pp, [id |-> m.id])

\* the arguments of client.login_user(client.email, client.password)
LoginArgs(c) == <<c.email, c.password>>

\* ------------------------------------------------------------ variables
VARIABLES
  pc,              \* position of the worker in get_club_data
  stop_event,      \* threading.Event shared with the Stop handler
  client,          \* the DuprClient's held credentials
  max_members,     \* input
  max_matches,     \* input
  roster,          \* the list get_members_by_club hands out
  members,         \* the truncated roster
  player_profiles, \* profiles appended so far
  idx,             \* position of the enrichment loop (1-based)
  player_ids,      \* the ids selected for history
  pidx,            \* position of the history loop (1-based)
  offset,          \* cursor of the paging loop
  match_list,      \* hits accumulated for the current player
  retry_count,     \* failures counted for the current player
  match_history,   \* player id -> hits
  result,          \* the returned dictionary
  \* ---- observations of the run (not program state)
  served,          \* pages the endpoint has served to the current player
  stats,           \* counts of the current player's calls and outcomes
  lastReq,         \* the current player's latest page request
  last,            \* the latest external call
  slept,           \* a sleep() has run since the latest external call
  ended,           \* why the latest finished player's loop ended
  \* ---- the interface (main) around get_club_data
  threads,         \* the threads started on do_crawl, each with its locals
  start_button,    \* the Start button
  stop_button,     \* the Stop button
  progress,        \* the progress bar
  client_instance, \* the DuprClient shared by perform_login and do_crawl
  email_input,     \* the e-mail field
  password_input,  \* the password field
  who              \* observation: the latest write to client_instance, by
                   \* the interface ("ui") or a worker, and the other
                   \* workers that were using the client then

vars == <<pc, stop_event, client, max_members, max_matches, roster, members,
          player_profiles, idx, player_ids, pidx, offset, match_list,
          retry_count, match_history, result, served, stats, lastReq,
          last, slept, ended, threads, start_button, stop_button,
          progress, client_instance, email_input, password_input, who>>

\* the interface state get_club_data and on_stop_click leave alone
uiVars == <<threads, start_button, progress, client_instance, email_input,
            password_input, who>>

\* what no step of get_club_data writes: its arguments and the interface
inputs == <<client, max_members, max_matches, uiVars>>
enrichVars == <<player_profiles, idx>>
pageVars == <<offset, match_list, retry_count>>

\* reqs: page requests issued; fails: requests answered 403 or ended by an
\* exception; reauths: login_user calls; fetched: the non-empty batches
\* decoded, in request order; shape: what the endpoint has answered so far
\*   "start"           no request yet
\*   "transport"       every request raised a transport error
\*   "s403"            every request was answered 403
\*   "s403_then_empty" 403s (possibly none), then a 200 with empty hits
\*   "mixed"           anything else
NoStats == [reqs |-> 0, fails |-> 0, reauths |-> 0, fetched |-> <<>>,
            shape |-> "start"]

\* how an answer changes the shape
Shape(sh, out) ==
  CASE out = "transport" /\ sh \in {"start", "transport"} -> "transport"
    [] out = "s403" /\ sh \in {"start", "s403"} -> "s403"
    [] out = "empty" /\ sh \in {"start", "s403"} -> "s403_then_empty"
    [] OTHER -> "mixed"

NoReq == [off |-> None, rc |-> 0, status |-> "none"]

NoCall == [kind |-> "none", arg |-> <<>>, out |-> "none"]

NoResult == [returned |-> FALSE]

Workers == 1..MaxWorkers

\* a thread that was not started yet
\* how: the way its do_crawl ended; data: what get_club_data returned to
\* it; exported: the data it has passed to export_to_excel.  A local that
\* is not read again is put back to its first value.
Unborn == [pc |-> "unborn", email |-> "", password |-> "", shared |-> FALSE,
           reauths |-> 0, how |-> "", data |-> "none", exported |-> <<>>]

\* client_instance: Optional[DuprClient] = None
NoInstance == [exists |-> FALSE, email |-> "", password |-> ""]

NoWrite == [by |-> "none", during |-> {}]

\* the id of the player the paging loop is working on, or has just finished
CurPid == player_ids[pidx]

\* the state in which the first worker enters get_club_data: do_crawl has
\* set the buttons and logged in with the credentials of the fields
Init ==
  /\ pc = "start"
  /\ stop_event = FALSE
  /\ client = [email |-> "e1", password |-> "pw1"]
  /\ max_members \in Caps
  /\ max_matches \in Caps
  /\ roster = Roster
  /\ members = <<>>
  /\ player_profiles = <<>>
  /\ idx = 1
  /\ player_ids = <<>>
  /\ pidx = 1
  /\ offset = 0
  /\ match_list = <<>>
  /\ retry_count = 0
  /\ match_history = EmptyMap
  /\ result = NoResult
  /\ served = EmptyMap
  /\ stats = NoStats
  /\ lastReq = NoReq
  /\ last = NoCall
  /\ slept = FALSE
  /\ ended = "none"
  /\ threads = [w \in Workers |->
                  IF w = 1
                  THEN [Unborn EXCEPT !.pc = "crawl",
                                      !.email = client.email,
                                      !.password = client.password]
                  ELSE Unborn]
  /\ start_button = [disabled |-> TRUE]
  /\ stop_button = [disabled |-> FALSE]
  /\ progress = [visible |-> TRUE]
  /\ client_instance = NoInstance
  /\ email_input = client.email
  /\ password_input = client.password
  /\ who = NoWrite

\* ------------------------------------------------------------- actions

\* on_stop_click: stop_event.set() and the Stop button is disabled; a
\* disabled button takes no click
on_stop_click ==
  /\ ~stop_button.disabled
  /\ stop_event' = TRUE
  /\ stop_button' = [disabled |-> TRUE]
  /\ UNCHANGED <<pc, inputs, roster, members, enrichVars, player_ids, pidx, pageVars,
                 match_history, result, served, stats, lastReq, last, slept,
                 ended>>

\* variant: a failed roster call is tried again
RosterFailed_retry ==
  /\ pc' = "start"
  /\ UNCHANGED <<roster, members>>

\* lines 61-62: a failed roster call raises RuntimeError
RosterFailed ==
  /\ pc' = "raised"
  /\ UNCHANGED <<roster, members>>

\* variant: the list handed out is cut in place (del members[k:])
Enumerate_inPlace ==
  /\ members' = Truncate(roster, max_members)
  /\ roster' = members'

\* line 64: the slice is a new list; the list handed out is left alone
Enumerate ==
  /\ members' = Truncate(roster, max_members)
  /\ UNCHANGED roster

\* lines 60-64: the roster call, the fatal error, the truncation
GetMembers ==
  /\ pc = "start"
  /\ slept' = FALSE
  /\ \E status \in BOOLEAN :
       /\ last' = [kind |-> "roster", arg |-> <<>>,
                   out |-> IF status THEN "ok" ELSE "failed"]
       /\ IF ~status
          THEN RosterFailed
          ELSE /\ Enumerate
               /\ pc' = "enrich_poll"
  /\ UNCHANGED <<stop_event, stop_button, inputs, enrichVars, player_ids, pidx, pageVars,
                 match_history, result, served, stats, lastReq, ended>>

\* variant: the enrichment loop does not look at the cancellation flag
EnrichGoesOn_ignoreStop == idx <= Len(members)

\* lines 69-70: a member is left and cancellation was not polled set
EnrichGoesOn == idx <= Len(members) /\ ~stop_event

\* lines 69-72 and 112-113: the head of the enrichment loop; when the loop
\* is over (exhausted or cancelled) the history stage is set up
EnrichPoll ==
  /\ pc = "enrich_poll"
  /\ IF EnrichGoesOn
     THEN /\ pc' = "detail"
          /\ UNCHANGED <<player_ids, pidx, match_history>>
     ELSE /\ match_history' = EmptyMap
          /\ player_ids' = PlayerIds(members, max_matches)
          /\ pidx' = 1
          /\ pc' = "hist_poll"
  /\ UNCHANGED <<stop_event, stop_button, inputs, roster, members, enrichVars, pageVars, result,
                 served, stats, lastReq, last, slept, ended>>

\* variant: an exception of the detail call leaves get_club_data
DetailFailed_propagate ==
  /\ UNCHANGED <<player_profiles, idx>>
  /\ slept' = FALSE
  /\ pc' = "raised"

\* lines 107-108: an exception raised for one member is logged, and the
\* loop goes on with the next member (the sleep of line 106 is not reached)
DetailFailed ==
  /\ UNCHANGED player_profiles
  /\ slept' = FALSE
  /\ idx' = idx + 1
  /\ pc' = "enrich_poll"

\* lines 73-108: one member's baseline profile, detail call and merge.
\* The detail call returns a detail ("detail"), returns none ("absent"),
\* raises ("raise"), or returns something the merge chokes on
\* ("malformed").  A profile is represented by its id: the rating-display
\* fields merged at lines 94-103 are never read back by the pipeline.
GetPlayer ==
  /\ pc = "detail"
  /\ \E out \in {"detail", "absent", "raise", "malformed"} :
       /\ last' = [kind |-> "detail", arg |-> <<members[idx].id>>,
                   out |-> out]
       /\ IF out \in {"detail", "absent"}
          THEN /\ player_profiles' =
                    AppendProfile(player_profiles, members[idx])
               /\ slept' = TRUE
               /\ idx' = idx + 1
               /\ pc' = "enrich_poll"
          ELSE DetailFailed
  /\ UNCHANGED <<stop_event, stop_button, inputs, roster, members, player_ids, pidx, pageVars,
                 match_history, result, served, stats, lastReq, ended>>

\* variant: the players with history are counted instead of their matches
ScrapedMatches_players(mh) == Cardinality(DOMAIN mh)

\* line 179: sum(len(m) for m in match_history.values())
ScrapedMatches(mh) == SumLens(mh, DOMAIN mh)

\* variant: the name is taken from the last member
ClubName_last(ms) == IF ms # <<>> THEN ms[Len(ms)].clubName ELSE ""

\* line 177: members[0].get("clubName") if members else ""
ClubName(ms) == IF ms # <<>> THEN ms[1].clubName ELSE ""

\* lines 174-184: the returned dictionary
Result ==
  [returned |-> TRUE,
   club_info |->
     [id |-> club_id,
      name |-> ClubName(members),
      total_members |-> Len(members),
      scraped_matches |-> ScrapedMatches(match_history)],
   members |-> members,
   player_profiles |-> player_profiles,
   match_history |-> match_history]

\* variant: the retry count is carried over from the previous player
StartPlayer_keepRetry ==
  /\ offset' = 0
  /\ match_list' = <<>>
  /\ UNCHANGED retry_count

\* lines 120-122: a player is started with offset 0, an empty list and a
\* zero retry count
StartPlayer ==
  /\ offset' = 0
  /\ match_list' = <<>>
  /\ retry_count' = 0

\* variant: the per-player loop does not look at the cancellation flag
HistGoesOn_ignoreStop == pidx <= Len(player_ids)

\* lines 115-116: a player is left and cancellation was not polled set
HistGoesOn == pidx <= Len(player_ids) /\ ~stop_event

\* lines 115-119 and 174: the head of the per-player loop
HistPoll ==
  /\ pc = "hist_poll"
  /\ IF HistGoesOn
     THEN /\ StartPlayer
          /\ served' = EmptyMap
          /\ stats' = NoStats
          /\ lastReq' = NoReq
          /\ ended' = "none"
          /\ pc' = "loop_head"
          /\ UNCHANGED result
     ELSE /\ result' = Result
          /\ pc' = "done"
          /\ UNCHANGED <<pageVars, served, stats, lastReq, ended>>
  /\ UNCHANGED <<stop_event, stop_button, inputs, roster, members, enrichVars, player_ids, pidx,
                 match_history, last, slept>>

\* variant: a cancelled player's pages are dropped
EndPlayer_dropOnCancel(ml, why) ==
  /\ match_history' =
       StoreHistory(match_history, CurPid,
                    IF why = "cancel" THEN <<>> ELSE ml)
  /\ pidx' = pidx + 1
  /\ ended' = why
  /\ pc' = "hist_poll"

\* variant: the history loop is nested in the enrichment loop, which is
\* taken up again after a player
EndPlayer_reenrich(ml, why) ==
  /\ match_history' = StoreHistory(match_history, CurPid, ml)
  /\ pidx' = pidx + 1
  /\ ended' = why
  /\ pc' = "enrich_poll"

\* lines 169-172: leaving the paging loop with the list ml
EndPlayer(ml, why) ==
  /\ match_history' = StoreHistory(match_history, CurPid, ml)
  /\ pidx' = pidx + 1
  /\ ended' = why
  /\ pc' = "hist_poll"

\* variant: the paging loop does not look at the cancellation flag
PagePollSet_never == FALSE

\* lines 126-128: the poll inside the paging loop finds the flag set
PagePollSet == stop_event

\* lines 125-128: the while condition and the poll inside the loop
LoopHead ==
  /\ pc = "loop_head"
  /\ IF ~LoopCond(offset, retry_count)
     THEN EndPlayer(match_list, IF offset = None THEN "null" ELSE "exhausted")
     ELSE IF PagePollSet
          THEN EndPlayer(match_list, "cancel")
          ELSE /\ pc' = "request"
               /\ UNCHANGED <<match_history, pidx, ended>>
  /\ UNCHANGED <<stop_event, stop_button, inputs, roster, members, enrichVars, player_ids,
                 pageVars, result, served, stats, lastReq, last, slept>>

\* the except clause, lines 163-167
OnException ==
  /\ retry_count' = BumpRetry(retry_count)
  /\ offset' = RetryOffset(offset)
  /\ slept' = TRUE
  /\ pc' = "loop_head"
  /\ UNCHANGED <<match_list, match_history, pidx, ended, served>>

\* variant: a 403 is retried like an exception, without logging in
AuthExpired_noLogin == OnException

\* lines 145-146: a 403 leads to the reauthentication call
AuthExpired ==
  /\ pc' = "reauth"
  /\ slept' = FALSE
  /\ UNCHANGED <<pageVars, match_history, pidx, ended, served>>

\* variant: any status that is not 200 is retried
OtherStatus_retry == OnException

\* lines 143-150: any other status that is not 200 breaks out of the loop
OtherStatus ==
  /\ EndPlayer(match_list, "status")
  /\ slept' = FALSE
  /\ UNCHANGED <<pageVars, served>>

\* lines 129-167: one page request and the handling of its response
DuprPost ==
  /\ pc = "request"
  /\ \E out \in {"transport", "s403", "other", "json", "paging", "ok"} :
       /\ last' = [kind |-> "page", arg |-> <<CurPid, offset>>, out |-> out]
       /\ lastReq' = [off |-> offset, rc |-> retry_count,
                      status |-> IF out \in {"transport", "json", "paging"}
                                 THEN "raised" ELSE out]
       /\ CASE out \in {"transport", "json", "paging"} ->
                 /\ OnException
                 /\ stats' = [stats EXCEPT !.reqs = @ + 1, !.fails = @ + 1,
                                           !.shape = Shape(@, out)]
            [] out = "s403" ->
                 /\ AuthExpired
                 /\ stats' = [stats EXCEPT !.reqs = @ + 1, !.fails = @ + 1,
                                           !.shape = Shape(@, out)]
            [] out = "other" ->
                 /\ OtherStatus
                 /\ stats' = [stats EXCEPT !.reqs = @ + 1,
                                           !.shape = Shape(@, out)]
            [] out = "ok" ->
                 \E page \in Pages(offset) :
                   /\ offset \in DOMAIN served => page = served[offset]
                   /\ served' = [o \in DOMAIN served \cup {offset} |->
                                   IF o = offset THEN page ELSE served[o]]
                   /\ offset' = page.next
                   /\ retry_count' = AfterSuccess(retry_count)
                   /\ IF page.n = 0
                      THEN /\ EndPlayer(match_list, "empty")
                           /\ UNCHANGED match_list
                           /\ slept' = FALSE
                           /\ stats' = [stats EXCEPT
                                           !.reqs = @ + 1,
                                           !.shape = Shape(@, "empty")]
                      ELSE /\ match_list' =
                                Extend(match_list,
                                       Hits(CurPid, offset, page.n))
                           /\ slept' = TRUE
                           /\ stats' =
                                [stats EXCEPT
                                   !.reqs = @ + 1,
                                   !.shape = Shape(@, "hits"),
                                   !.fetched =
                                      @ \o Hits(CurPid, offset, page.n)]
                           /\ pc' = "loop_head"
                           /\ UNCHANGED <<match_history, pidx, ended>>
  /\ UNCHANGED <<stop_event, stop_button, inputs, roster, members, enrichVars, player_ids, result>>

\* variant: an exception of login_user leaves get_club_data
LoginRaised_propagate ==
  /\ pc' = "raised"
  /\ slept' = FALSE
  /\ UNCHANGED <<pageVars, match_history, pidx, ended, served>>

\* line 147 is inside the try block: an exception of login_user is handled
\* by the except clause
LoginRaised == OnException

\* lines 145-149 (and 163-167 when login_user raises): reauthentication
LoginUser ==
  /\ pc = "reauth"
  /\ stats' = [stats EXCEPT !.reauths = @ + 1]
  /\ \E raised \in BOOLEAN :
       /\ last' = [kind |-> "login", arg |-> LoginArgs(client),
                   out |-> IF raised THEN "raise" ELSE "ok"]
       /\ IF raised
          THEN LoginRaised
          ELSE /\ retry_count' = BumpRetry(retry_count)
               /\ offset' = RetryOffset(offset)
               /\ slept' = FALSE
               /\ pc' = "loop_head"
               /\ UNCHANGED <<match_list, match_history, pidx, ended,
                              served>>
  /\ UNCHANGED <<stop_event, stop_button, inputs, roster, members, enrichVars, player_ids, result,
                 lastReq>>

Worker ==
  \/ GetMembers
  \/ EnrichPoll
  \/ GetPlayer
  \/ HistPoll
  \/ LoopHead
  \/ DuprPost
  \/ LoginUser

Next ==
  \/ Worker
  \/ on_stop_click

Spec == Init /\ [][Next]_vars

\* the worker thread keeps running until get_club_data returns or raises
FairSpec == Spec /\ WF_vars(Worker)

\* ---------------------------------------------------------- interface
\* The interface is followed on its own: the handlers of the buttons and
\* the threads they start on do_crawl.  Of get_club_data only what touches
\* the interface's state is kept: its login_user calls on the client it
\* was given (line 147) and its end; its own variables stay as they are.

\* the variables of get_club_data
pipeVars == <<pc, client, max_members, max_matches, roster, members,
              player_profiles, idx, player_ids, pidx, offset, match_list,
              retry_count, match_history, result, served, stats, lastReq,
              last, slept, ended>>

\* lines 1376-1377: the credentials the guest button fills in
GuestEmail == "duprsport@gmail.com"
GuestPassword == "crawldata123"

\* lines 509-524 and 1277-1279: the interface as main() builds it
UiInit ==
  /\ pc = "start"
  /\ stop_event = FALSE
  /\ client = [email |-> "e1", password |-> "pw1"]
  /\ max_members = RosterSize
  /\ max_matches = RosterSize
  /\ roster = Roster
  /\ members = <<>>
  /\ player_profiles = <<>>
  /\ idx = 1
  /\ player_ids = <<>>
  /\ pidx = 1
  /\ offset = 0
  /\ match_list = <<>>
  /\ retry_count = 0
  /\ match_history = EmptyMap
  /\ result = NoResult
  /\ served = EmptyMap
  /\ stats = NoStats
  /\ lastReq = NoReq
  /\ last = NoCall
  /\ slept = FALSE
  /\ ended = "none"
  /\ threads = [w \in Workers |-> Unborn]
  /\ start_button = [disabled |-> FALSE]
  /\ stop_button = [disabled |-> TRUE]
  /\ progress = [visible |-> FALSE]
  /\ client_instance = NoInstance
  /\ email_input = ""
  /\ password_input = ""
  /\ who = NoWrite

fields == <<email_input, password_input>>
buttons == <<start_button, stop_button, progress>>

\* the user fills in or empties the credential fields
EditCredentials ==
  /\ \E filled \in BOOLEAN :
       /\ email_input' = IF filled THEN "e1" ELSE ""
       /\ password_input' = IF filled THEN "pw1" ELSE ""
  /\ UNCHANGED <<pipeVars, stop_event, threads, buttons, client_instance,
                 who>>

\* the workers that are inside get_club_data with the shared client
Using == {w \in Workers : threads[w].pc = "crawl" /\ threads[w].shared}

\* lines 1357-1363: the flag is cleared and a new thread is started on
\* do_crawl, whatever the earlier threads are doing; a disabled button
\* takes no click.  At most MaxWorkers threads are alive at a time.
on_start_click ==
  /\ ~start_button.disabled
  /\ \E w \in Workers :
       /\ threads[w].pc = "unborn"
       /\ \A v \in Workers : v < w => threads[v].pc # "unborn"
       /\ threads' = [threads EXCEPT ![w].pc = "begin"]
  /\ stop_event' = FALSE
  /\ UNCHANGED <<pipeVars, buttons, client_instance, fields, who>>

\* lines 1272-1275: set_running
set_running(is_running) ==
  /\ start_button' = [disabled |-> is_running]
  /\ progress' = [visible |-> is_running]

\* lines 1299-1316: set_running(True), the Stop button is enabled, the
\* fields are read; a number field int() refuses raises ValueError, missing
\* credentials return
DoCrawlBegin(w) ==
  /\ threads[w].pc = "begin"
  /\ set_running(TRUE)
  /\ stop_button' = [disabled |-> FALSE]
  /\ \E numbers \in {"int", "text"} :
       threads' =
         IF numbers # "int"
         THEN [threads EXCEPT ![w].how = "number", ![w].pc = "finally"]
         ELSE IF email_input = "" \/ password_input = ""
         THEN [threads EXCEPT ![w].how = "missing", ![w].pc = "finally"]
         ELSE [threads EXCEPT ![w].email = email_input,
                              ![w].password = password_input,
                              ![w].pc = "login"]
  /\ UNCHANGED <<pipeVars, stop_event, client_instance, fields, who>>

\* lines 1318-1323: the shared client is taken if there is one, else a
\* client of the thread's own; the credentials are written to it and
\* login_user is called, which may raise
DoCrawlLogin(w) ==
  /\ threads[w].pc = "login"
  /\ IF client_instance.exists
     THEN /\ client_instance' = [exists |-> TRUE,
                                 email |-> threads[w].email,
                                 password |-> threads[w].password]
          /\ who' = [by |-> "worker", during |-> Using \ {w}]
     ELSE UNCHANGED <<client_instance, who>>
  /\ \E raised \in BOOLEAN :
       threads' =
         IF raised
         THEN [threads EXCEPT ![w] = [Unborn EXCEPT !.how = "login",
                                                     !.pc = "finally"]]
         ELSE [threads EXCEPT ![w] = [Unborn EXCEPT
                                        !.shared = client_instance.exists,
                                        !.pc = "crawl"]]
  /\ UNCHANGED <<pipeVars, stop_event, buttons, fields>>

\* line 147: get_club_data reauthenticates on the client it was given
Reauth(w) ==
  /\ threads[w].pc = "crawl"
  /\ threads[w].reauths < MaxReauth
  /\ threads' = [threads EXCEPT ![w].reauths = @ + 1]
  /\ IF threads[w].shared
     THEN who' = [by |-> "worker", during |-> Using \ {w}]
     ELSE UNCHANGED who
  /\ UNCHANGED <<pipeVars, stop_event, buttons, client_instance, fields>>

\* variant: a cancelled crawl is not exported
AfterReturn_skipOnStop == IF stop_event THEN "finally" ELSE "export"

\* lines 1325-1336: the statement after get_club_data has returned is the
\* export
AfterReturn == "export"

\* lines 1325-1334: get_club_data raises (the roster call failed) or
\* returns its result, which is partial when the flag was set
CrawlEnds(w) ==
  /\ threads[w].pc = "crawl"
  /\ \E raised \in BOOLEAN :
       threads' =
         IF raised
         THEN [threads EXCEPT ![w] = [Unborn EXCEPT !.how = "roster",
                                                     !.pc = "finally"]]
         ELSE [threads EXCEPT ![w] =
                 [Unborn EXCEPT
                    !.data = IF stop_event THEN "partial" ELSE "full",
                    !.pc = AfterReturn]]
  /\ UNCHANGED <<pipeVars, stop_event, buttons, client_instance, fields,
                 who>>

\* lines 1336-1351: export_to_excel(data, ...), which may raise
Export(w) ==
  /\ threads[w].pc = "export"
  /\ \E raised \in BOOLEAN :
       threads' = [threads EXCEPT
                     ![w].exported = Append(@, threads[w].data),
                     ![w].how = IF raised THEN "export" ELSE "ok",
                     ![w].pc = "finally"]
  /\ UNCHANGED <<pipeVars, stop_event, buttons, client_instance, fields,
                 who>>

\* line 1353: set_running(False)
SetRunningFalse(w) ==
  /\ threads[w].pc = "finally"
  /\ set_running(FALSE)
  /\ threads' = [threads EXCEPT ![w] = [Unborn EXCEPT !.pc = "disable_stop"]]
  /\ UNCHANGED <<pipeVars, stop_event, stop_button, client_instance, fields,
                 who>>

\* lines 1354-1355: the Stop button is disabled and do_crawl is over: the
\* thread is gone
DoCrawlFinally(w) ==
  /\ threads[w].pc = "disable_stop"
  /\ stop_button' = [disabled |-> TRUE]
  /\ threads' = [threads EXCEPT ![w] = Unborn]
  /\ UNCHANGED <<pipeVars, stop_event, start_button, progress,
                 client_instance, fields, who>>

\* lines 1281-1296: perform_login(email, password): without both it only
\* reports; else the shared client is made if there is none, the
\* credentials are written to it and login_user is called on it (its
\* exception is caught)
perform_login(email, password) ==
  IF email = "" \/ password = ""
  THEN UNCHANGED <<client_instance, who>>
  ELSE /\ client_instance' = [exists |-> TRUE, email |-> email,
                              password |-> password]
       /\ who' = [by |-> "ui", during |-> Using]

\* lines 1371-1372
on_login_click ==
  /\ perform_login(email_input, password_input)
  /\ UNCHANGED <<pipeVars, stop_event, threads, buttons, fields>>

\* lines 1374-1378
on_guest_login_click ==
  /\ email_input' = GuestEmail
  /\ password_input' = GuestPassword
  /\ perform_login(GuestEmail, GuestPassword)
  /\ UNCHANGED <<pipeVars, stop_event, threads, buttons>>

do_crawl ==
  \E w \in Workers :
    \/ DoCrawlBegin(w)
    \/ DoCrawlLogin(w)
    \/ Reauth(w)
    \/ CrawlEnds(w)
    \/ Export(w)
    \/ SetRunningFalse(w)
    \/ DoCrawlFinally(w)

UiNext ==
  \/ EditCredentials
  \/ on_start_click
  \/ on_stop_click
  \/ on_login_click
  \/ on_guest_login_click
  \/ do_crawl

UiSpec == UiInit /\ [][UiNext]_vars

\* ------------------------------------------------------------ properties

\* a player's paging loop is over and no later player has been started
Finished == pc \in {"hist_poll", "done"} /\ ended # "none"

\* the player the observations (stats, lastReq, served, ended) are about
ObservedPid == IF Finished THEN player_ids[pidx - 1] ELSE player_ids[pidx]

\* the paging loop of some player is running
Fetching == pc \in {"loop_head", "request", "reauth"}

\* C1: within one player's fetch the failed attempts (403 answers and raised
\* exceptions, counted across all of the player's pages) never exceed 3, and
\* no page request is issued once three attempts have failed
C1_RetryBudget ==
  /\ stats.fails <= 3
  /\ pc = "request" => stats.fails < 3

\* three failures around a page that was fetched in between
C1_Witness ==
  /\ Finished
  /\ ended = "exhausted"
  /\ stats.fails = 3
  /\ stats.fetched # <<>>
  /\ lastReq.off > 0

\* C2 (safety part): while every page request of a player has raised a
\* transport error, at most 3 requests were issued for the player, none of
\* them led to a reauthentication, and the player is not in match_history
\* (nor in the returned result)
C2_AllTransport ==
  stats.shape = "transport" =>
    /\ stats.reqs <= 3
    /\ stats.reauths = 0
    /\ ObservedPid \notin DOMAIN match_history
    /\ pc = "done" => ObservedPid \notin DOMAIN result.match_history

\* C2: the safety part above; the worker never raises after the roster
\* call; a player whose requests all raise transport errors has its fetch
\* ended (it does not hang); and when that player was the last one selected,
\* get_club_data returns
C2_TransportTerminates ==
  /\ []C2_AllTransport
  /\ [][pc' = "raised" => pc \in {"start", "raised"}]_vars
  /\ (pc = "request" /\ stats.shape \in {"start", "transport"})
        ~> (Finished \/ stats.shape \notin {"start", "transport"})
  /\ (Finished /\ stats.shape = "transport" /\ pidx > Len(player_ids))
        ~> (pc = "done" /\ result.returned)

\* the crawl has returned after a player whose three requests all raised
C2_Witness ==
  /\ pc = "done"
  /\ result.returned
  /\ stats.shape = "transport"
  /\ stats.reqs = 3
  /\ ended = "exhausted"

\* C3 (state part): after a 403 answer, and until the player's next page
\* request, either no call has been made yet and the worker is about to
\* reauthenticate, or the one call made was login_user with the held
\* credentials, retry_count is one more than when the request was issued,
\* and the offset is the one of the request that got the 403
C3_After403 ==
  lastReq.status = "s403" =>
    /\ offset = lastReq.off
    /\ IF last.kind = "page"
       THEN pc = "reauth" /\ retry_count = lastReq.rc
       ELSE /\ pc # "reauth"
            /\ last.kind = "login"
            /\ last.arg = <<client.email, client.password>>
            /\ retry_count = lastReq.rc + 1

\* C3: the state part, and the step taken from the reauthentication point
\* is the login_user call
C3_ReauthThenRetry ==
  /\ []C3_After403
  /\ [][pc = "reauth" /\ pc' # "reauth" => last'.kind = "login"]_vars

\* a page request is about to be repeated after a 403 and a login
C3_Witness ==
  /\ pc = "request"
  /\ lastReq.status = "s403"
  /\ lastReq.off > 0
  /\ last.kind = "login"

\* C4 (state part): while a player's requests have all been answered 403,
\* one login_user call was made per 403 (the latest one may still be due);
\* once k < 3 such answers were followed by a 200 with empty hits, exactly k
\* login_user calls were made and the player is not in match_history
C4_Reauth403 ==
  /\ stats.shape = "s403" =>
       stats.reauths = IF pc = "reauth" THEN stats.reqs - 1 ELSE stats.reqs
  /\ stats.shape = "s403_then_empty" =>
       /\ stats.reqs - 1 < 3
       /\ stats.reauths = stats.reqs - 1
       /\ Finished
       /\ ObservedPid \notin DOMAIN match_history
       /\ pc = "done" => ObservedPid \notin DOMAIN result.match_history

\* two 403 answers, then an empty page, and the crawl has returned
C4_Witness ==
  /\ pc = "done"
  /\ stats.shape = "s403_then_empty"
  /\ stats.reqs = 3
  /\ stats.reauths = 2

\* no request of the observed player has failed
NoFailure == stats.fails = 0 /\ ended # "status" /\ stats.reqs > 0

\* the page decoded by the latest request
LastPage == served[lastReq.off]

\* C5: when no request fails, the hits of every non-empty page are appended
\* in order (match_list is the concatenation of the batches in request
\* order), the cursor is the decoded nextOffset, no request follows a page
\* with a null nextOffset or empty hits, no reauthentication is made,
\* retry_count stays 0, and the stored history is that concatenation
C5_CursorChain ==
  NoFailure =>
    /\ match_list = stats.fetched
    /\ offset = LastPage.next
    /\ stats.fetched # <<>> =>
         /\ stats.fetched[Len(stats.fetched)][2] <= lastReq.off
         /\ stats.fetched[1] = <<ObservedPid, 0, 1>>
    /\ \A i \in 1..(Len(stats.fetched) - 1) :
         \/ stats.fetched[i][2] < stats.fetched[i + 1][2]
         \/ /\ stats.fetched[i][2] = stats.fetched[i + 1][2]
            /\ stats.fetched[i][3] + 1 = stats.fetched[i + 1][3]
    /\ Fetching => LastPage.n > 0
    /\ pc = "request" => LastPage.next # None
    /\ stats.reauths = 0
    /\ retry_count = 0
    /\ Finished /\ stats.fetched # <<>> =>
         /\ ObservedPid \in DOMAIN match_history
         /\ match_history[ObservedPid] = stats.fetched

\* two batches were fetched, the second with a null nextOffset
C5_Witness ==
  /\ NoFailure
  /\ pc = "done"
  /\ ended = "null"
  /\ lastReq.off > 0
  /\ Len(stats.fetched) >= 2

\* the hits of the pages the endpoint serves along the cursor chain from
\* offset o up to, and not including, the cursor cur
RECURSIVE Chain(_, _)
Chain(o, cur) ==
  IF o = cur THEN <<>>
  ELSE IF o \notin DOMAIN served THEN << <<"unserved", o, 0>> >>
  ELSE Hits(ObservedPid, o, served[o].n) \o Chain(served[o].next, cur)

\* C6 (state part): the accumulated hits are the pages along the cursor
\* chain from offset 0 up to the cursor, so no page is skipped, and no hit
\* occurs twice
C6_ChainPrefix ==
  Fetching \/ Finished =>
    /\ match_list = Chain(0, offset)
    /\ \A i, j \in 1..Len(match_list) :
         match_list[i] = match_list[j] => i = j

\* C6: the state part, and a failed attempt (a 403 with its
\* reauthentication, or an exception raised by the request, the body decode
\* or the paging decode) leaves the offset and the accumulated hits unchanged
C6_RetriesKeepPages ==
  /\ []C6_ChainPrefix
  /\ [][(stats'.fails = stats.fails + 1 \/ pc = "reauth")
          => offset' = offset /\ match_list' = match_list]_vars

\* a second page was appended after two failed attempts
C6_Witness ==
  /\ Finished
  /\ stats.fails = 2
  /\ retry_count = 2
  /\ Len(match_list) >= 2
  /\ lastReq.rc = 2
  /\ lastReq.status = "ok"
  /\ lastReq.off > 0

\* C7: a status that is neither 200 nor 403 ends the player's fetch at
\* once: the loop is left, the request is still the latest external call
\* (no reauthentication, no further page request), and retry_count is what
\* it was when the request was issued
C7_OtherStatusEnds ==
  lastReq.status = "other" =>
    /\ Finished
    /\ ended = "status"
    /\ last = [kind |-> "page", arg |-> <<ObservedPid, lastReq.off>>,
               out |-> "other"]
    /\ retry_count = lastReq.rc
    /\ stats.fails = lastReq.rc

\* such a status arrived on a later page, after one failure
C7_Witness ==
  /\ lastReq.status = "other"
  /\ lastReq.off > 0
  /\ lastReq.rc = 1
  /\ stats.reauths = 1

\* C8 (state part): once a player's loop has ended, for whatever reason,
\* the hits appended for the player are stored under the player's id
C8_Stored ==
  /\ Finished /\ stats.fetched # <<>> =>
       /\ ObservedPid \in DOMAIN match_history
       /\ match_history[ObservedPid] = stats.fetched
  /\ pc = "done" => result.match_history = match_history

\* C8: the state part, and what is stored for a player stays stored
C8_KeepsFetchedPages ==
  /\ []C8_Stored
  /\ [][\A p \in DOMAIN match_history :
          p \in DOMAIN match_history' /\ match_history'[p] = match_history[p]]_vars

\* cancellation was polled in the middle of a player's pages
C8_Witness ==
  /\ Finished
  /\ ended = "cancel"
  /\ stats.fetched # <<>>
  /\ offset # None
  /\ retry_count < 3

\* no key of the map mh has an empty list, and a key's hits are the
\* player's own
NonEmptyOwn(mh) ==
  \A p \in DOMAIN mh :
    /\ mh[p] # <<>>
    /\ \A i \in 1..Len(mh[p]) : mh[p][i][1] = p

\* C9: match_history, in every state and in the returned result, holds a
\* player only with a non-empty list of hits fetched for that player
C9_NoEmptyHistory ==
  /\ NonEmptyOwn(match_history)
  /\ pc = "done" => NonEmptyOwn(result.match_history)

\* the crawl returned with one player stored and another one dropped
C9_Witness ==
  /\ pc = "done"
  /\ Len(player_ids) = 2
  /\ Cardinality(DOMAIN result.match_history) = 1
  /\ ended = "empty"
  /\ stats.fetched = <<>>

\* C10 (state part): the worker raises only out of the roster call, and a
\* crawl that returns without cancellation has gone through every selected
\* player
C10_NoAbort ==
  /\ pc = "raised" => last.kind = "roster"
  /\ pc = "done" /\ ~stop_event => pidx = Len(player_ids) + 1

\* C10: the state part; and when the head of the per-player loop is left
\* with a player remaining and cancellation not set, that player is started
\* at offset 0 with an empty list and a full retry budget of 3, whatever
\* happened to the players before
C10_LaterPlayersAttempted ==
  /\ []C10_NoAbort
  /\ [][(pc = "hist_poll" /\ pc' # "hist_poll"
            /\ pidx <= Len(player_ids) /\ ~stop_event)
          => /\ pc' = "loop_head"
             /\ pidx' = pidx
             /\ offset' = 0
             /\ match_list' = <<>>
             /\ max_retries - retry_count' = 3]_vars
  /\ [][(pc = "loop_head" /\ stats = NoStats /\ ~stop_event)
          => pc' \in {"loop_head", "request"}]_vars

\* the second player is being requested after the first one exhausted its
\* retries and left nothing
C10_Witness ==
  /\ pc = "request"
  /\ pidx = 2
  /\ stats = NoStats
  /\ player_ids[1] \notin DOMAIN match_history

\* the roster has been fetched and truncated
Enumerated == pc \notin {"start", "raised"}

\* the ids of a sequence of members or of profiles
IdsOf(seq) == [i \in 1..Len(seq) |-> seq[i].id]

\* C11: for every max_members <= 0 (zero and every negative value) the
\* enumerated member sequence is empty
C11_NonPositiveCapEmpty ==
  Enumerated /\ max_members <= 0 => members = <<>>

C13_MembersWithinCap ==
  Enumerated => Len(members) <= max_members

\* a is b with some entries left out, the others in the same order
RECURSIVE IsSubseq(_, _)
IsSubseq(a, b) ==
  IF a = <<>> THEN TRUE
  ELSE IF b = <<>> THEN FALSE
  ELSE IF Head(a) = Head(b) THEN IsSubseq(Tail(a), Tail(b))
  ELSE IsSubseq(a, Tail(b))

\* the enrichment loop is over
PostEnrich == pc \in {"hist_poll", "loop_head", "request", "reauth", "done"}

\* the members the enrichment loop has gone through
Processed == SubSeq(members, 1, idx - 1)

\* C14: there are never more profiles than members, the profile ids are the
\* member ids with some left out and the order kept, the profile list only
\* changes by an append at its end, and an iteration whose poll finds the
\* flag set appends nothing and makes no detail call
C14_ProfilesFollowMembers ==
  /\ [](/\ Len(player_profiles) <= Len(members)
        /\ IsSubseq(IdsOf(player_profiles), IdsOf(members)))
  /\ [][\/ player_profiles' = player_profiles
        \/ /\ Len(player_profiles') = Len(player_profiles) + 1
           /\ SubSeq(player_profiles', 1, Len(player_profiles))
                = player_profiles]_vars
  /\ [][pc = "enrich_poll" /\ stop_event
          => player_profiles' = player_profiles /\ pc' # "detail"]_vars

\* every member of a two-member crawl got its profile
C14_Witness ==
  /\ pc = "done"
  /\ Len(members) >= 2
  /\ Len(result.player_profiles) = Len(members)

\* C15 as claimed: when cancellation is set once i members have been
\* processed by enrichment, there are exactly i profiles, those of the first
\* i members in order
C15_ExactlyProcessed ==
  PostEnrich /\ stop_event => IdsOf(player_profiles) = IdsOf(Processed)

\* C15 (state part of the amended claim): when cancellation is set once i
\* members have been processed, there are at most i profiles, they belong to
\* the first i members with the order kept, the latest detail call is the
\* one of member i, and the result returns these profiles
C15_WithinProcessed ==
  PostEnrich /\ stop_event =>
    /\ Len(player_profiles) <= idx - 1
    /\ IsSubseq(IdsOf(player_profiles), IdsOf(Processed))
    /\ last.kind = "detail" => last.arg = <<members[idx - 1].id>>
    /\ pc = "done" => result.player_profiles = player_profiles

\* C15 (amended): the state part; a member's profile is appended exactly
\* when its detail call returns (with a detail or without one) and is left
\* out when the call or the merge raises; once the poll finds the flag set
\* no detail call follows; and after the loop the profiles do not change
C15_ProfilesOfProcessed ==
  /\ []C15_WithinProcessed
  /\ [][pc = "detail" /\ pc' # "detail"
          => player_profiles' =
               IF last'.out \in {"detail", "absent"}
               THEN Append(player_profiles, [id |-> members[idx].id])
               ELSE player_profiles]_vars
  /\ [][pc = "enrich_poll" /\ stop_event => pc' # "detail"]_vars
  /\ [][PostEnrich => player_profiles' = player_profiles /\ idx' = idx]_vars

\* cancellation was polled set after one of two members: one profile
C15_Witness ==
  /\ pc = "done"
  /\ stop_event
  /\ Len(members) = 2
  /\ idx = 2
  /\ IdsOf(result.player_profiles) = <<members[1].id>>

\* C16: a failure of one member's detail call or merge never ends the
\* enrichment: the worker raises only out of the roster call, the step after
\* a detail call is the next poll with the next member, a poll that finds a
\* member left and the flag clear goes on to its detail call, and without
\* cancellation the loop ends only when every member was processed
C16_EnrichmentGoesOn ==
  /\ [](pc = "raised" => last.kind = "roster")
  /\ [](PostEnrich /\ ~stop_event => idx = Len(members) + 1)
  /\ [][pc = "detail" /\ pc' # "detail"
          => pc' = "enrich_poll" /\ idx' = idx + 1]_vars
  /\ [][pc = "enrich_poll" /\ pc' # "enrich_poll"
            /\ idx <= Len(members) /\ ~stop_event
          => pc' = "detail" /\ idx' = idx]_vars

\* the first member's detail call failed and the second member has its
\* profile
C16_Witness ==
  /\ PostEnrich
  /\ Len(members) = 2
  /\ IdsOf(player_profiles) = <<members[2].id>>

\* C17 as claimed: a member whose latest detail call raised, returned
\* something unusable, or returned no detail has no profile
C17_FailedMemberSkipped ==
  last.kind = "detail" /\ last.out # "detail" =>
    \A i \in 1..Len(player_profiles) : player_profiles[i].id # last.arg[1]

\* C18 as claimed: when the enrichment loop turns to the next member, the
\* delay has run since the detail call of the member before
C18_DelayAfterAttempt ==
  pc = "enrich_poll" /\ last.kind = "detail" => slept

\* C19: the roster call is the first external call and is made once: the
\* worker never comes back to it; when it reports failure the worker raises
\* at once, with no member, no profile, no page request, no
\* reauthentication and no result, and stays there
C19_RosterOnceAndFatal ==
  /\ [](pc = "start" => last.kind = "none")
  /\ [](pc = "raised" =>
          /\ last = [kind |-> "roster", arg |-> <<>>, out |-> "failed"]
          /\ members = <<>>
          /\ player_profiles = <<>>
          /\ stats = NoStats
          /\ lastReq = NoReq
          /\ served = EmptyMap
          /\ match_history = EmptyMap
          /\ result = NoResult)
  /\ [][pc = "start" /\ pc' # "start"
          => /\ last'.kind = "roster"
             /\ pc' = IF last'.out = "failed" THEN "raised"
                      ELSE "enrich_poll"]_vars
  /\ [][pc # "start"
          => pc' # "start" /\ (last'.kind = "roster" => last' = last)]_vars
  /\ [][pc = "raised" => pc' = "raised" /\ result' = NoResult]_vars

\* the roster call failed and the worker raised
C19_Witness ==
  /\ pc = "raised"
  /\ last.kind = "roster"
  /\ last.out = "failed"
  /\ result = NoResult

\* C20: the worker raises only out of a failed roster call; once the roster
\* was fetched no step raises, whatever the detail calls, page requests,
\* decodes and reauthentications do, and the worker goes on to return a
\* result
C20_OnlyRosterIsFatal ==
  /\ [](pc = "raised" => last.kind = "roster" /\ last.out = "failed")
  /\ [][Enumerated => pc' # "raised"]_vars
  /\ [](pc = "done" <=> result # NoResult)
  /\ [](pc = "done" => result = Result)
  /\ Enumerated ~> (pc = "done" /\ result.returned)

\* a result was returned although a detail call failed and the latest
\* reauthentication raised
C20_Witness ==
  /\ pc = "done"
  /\ result.returned
  /\ Len(result.player_profiles) < Len(result.members)
  /\ last.kind = "login"
  /\ last.out = "raise"

\* the flag is set and the worker is at a poll or past it: the data request
\* whose iteration had passed its poll, if any, has been made
PastPoll ==
  /\ stop_event
  /\ pc \in {"enrich_poll", "hist_poll", "loop_head", "reauth", "done"}

\* C21: once the flag is set, a worker that is about to make a detail call
\* or a page request makes that one and comes to a poll; from a poll on, no
\* detail call and no page request is made, no member and no page is added,
\* and the worker returns the result assembled from what it has
C21_StopsAfterOneRequest ==
  /\ [][stop_event /\ pc \in {"detail", "request"} /\ pc' # pc
          => PastPoll']_vars
  /\ [][PastPoll
          => /\ PastPoll'
             /\ last' = last \/ last'.kind = "login"
             /\ <<idx, player_profiles, match_list>>'
                  = <<idx, player_profiles, match_list>>
             /\ stats'.reqs = stats.reqs]_vars
  /\ (stop_event /\ Enumerated) ~> (pc = "done" /\ result = Result)

\* a page request was in flight when the flag was set: its hits are in the
\* result and the player's loop was left at the next poll
C21_Witness ==
  /\ pc = "done"
  /\ stop_event
  /\ ended = "cancel"
  /\ last.kind = "page"
  /\ last.out = "ok"
  /\ result.match_history # EmptyMap

\* C22 as claimed: a page request is made for one of the first max_matches
\* members, and for none when max_matches is not positive
C22_HistoryWithinCap ==
  pc = "request" =>
    /\ pidx <= Max(0, max_matches)
    /\ CurPid = members[pidx].id

\* the stage a position of the worker belongs to
Stage(p) ==
  CASE p = "start" -> 0
    [] p \in {"enrich_poll", "detail"} -> 1
    [] p \in {"hist_poll", "loop_head", "request", "reauth"} -> 2
    [] OTHER -> 3

\* the external call made by a step from position p
CallAt(p) ==
  CASE p = "start" -> "roster"
    [] p = "detail" -> "detail"
    [] p = "request" -> "page"
    [] p = "reauth" -> "login"
    [] OTHER -> "none"

\* C23: the worker never goes back to an earlier stage; every external call
\* is the one of the worker's position; while enrichment runs only the
\* roster call and detail calls have been made, and once a page request or
\* a reauthentication has been made enrichment is over
C23_StagesInSequence ==
  /\ [][Stage(pc') >= Stage(pc)]_vars
  /\ [][IF pc' # pc /\ CallAt(pc) # "none"
        THEN last'.kind = CallAt(pc)
        ELSE last' = last]_vars
  /\ [](Stage(pc) = 1 => last.kind \in {"roster", "detail"})
  /\ [](last.kind \in {"page", "login"} => PostEnrich)
  /\ [](last.kind = "none" <=> pc = "start")

\* all three stages have run: two profiles, then a reauthentication
C23_Witness ==
  /\ Len(player_profiles) = 2
  /\ last.kind = "login"
  /\ pc = "loop_head"

\* C24 as claimed: when the worker is about to make an external call and
\* has made one before, a sleep has run in between
C24_DelayBetweenCalls ==
  CallAt(pc) # "none" /\ last.kind # "none" => slept

\* the ids in a sequence of ids
Range(seq) == {seq[i] : i \in 1..Len(seq)}

\* C25: a returned result has total_members equal to the number of members
\* and scraped_matches equal to the sum of the lengths of the histories;
\* every profile id is a member's id and every history key is the id of a
\* player selected for history
C25_ResultConsistent ==
  pc = "done" =>
    /\ result.returned
    /\ result.club_info.total_members = Len(result.members)
    /\ result.club_info.scraped_matches =
         SumLens(result.match_history, DOMAIN result.match_history)
    /\ Range(IdsOf(result.player_profiles)) \subseteq
         Range(IdsOf(result.members))
    /\ DOMAIN result.match_history \subseteq Range(player_ids)
    /\ Range(player_ids) \subseteq Range(IdsOf(result.members))

\* a cancelled crawl returned one player's history of two matches
C25_Witness ==
  /\ pc = "done"
  /\ stop_event
  /\ result.club_info.scraped_matches = 2
  /\ Cardinality(DOMAIN result.match_history) = 1

\* C26 as claimed: no player's stored history is longer than
\* matches_per_player
C26_HistoryWithinLimit ==
  \A pid \in DOMAIN match_history :
    Len(match_history[pid]) <= matches_per_player

\* C29: the list the roster call hands out is never changed; the members
\* of a crawl are a function of that list and the cap alone, entry by entry
\* the records of the roster, and stay as enumerated until they are returned
C29_RosterUntouched ==
  /\ [](roster = Roster)
  /\ [](Enumerated => members = Truncate(Roster, max_members))
  /\ [](\A i \in 1..Len(members) : \E j \in 1..Len(Roster) :
          members[i] = Roster[j])
  /\ [][Enumerated => members' = members]_vars
  /\ [](pc = "done" => result.members = Truncate(Roster, max_members))

\* a crawl capped to one member of two has enriched it and returned
C29_Witness ==
  /\ pc = "done"
  /\ max_members = 1
  /\ Len(roster) = 2
  /\ result.members = <<Roster[1]>>
  /\ Len(result.player_profiles) = 1

\* the fields of club_info that hold a count
CountFields == DOMAIN result.club_info \ {"id", "name"}

\* C30 as claimed: club_info holds the first member's club name and three
\* counts, one of them the number of match_history keys
C30_ThreeCounts ==
  pc = "done" =>
    /\ result.club_info.name = ClubName(result.members)
    /\ Cardinality(CountFields) = 3
    /\ \E f \in CountFields \ {"total_members", "scraped_matches"} :
         result.club_info[f] = Cardinality(DOMAIN result.match_history)

\* C30 (amended): club_info holds the club id, the first member's club name
\* (the empty string without members) and two counts, the number of
\* members and the number of matches in all histories
C30_ClubInfo ==
  pc = "done" =>
    /\ DOMAIN result.club_info =
         {"id", "name", "total_members", "scraped_matches"}
    /\ result.club_info.id = club_id
    /\ result.club_info.name =
         IF result.members = <<>> THEN ""
         ELSE result.members[1].clubName
    /\ result.club_info.total_members = Len(result.members)
    /\ result.club_info.scraped_matches =
         SumLens(result.match_history, DOMAIN result.match_history)

\* two members with different club names and one player with history
C30_Witness ==
  /\ pc = "done"
  /\ Len(result.members) = 2
  /\ result.members[2].clubName # result.members[1].clubName
  /\ result.club_info.name = "club"
  /\ result.club_info.scraped_matches >= 1

\* the threads that are running do_crawl
Running == {w \in Workers : threads[w].pc # "unborn"}

\* C27 as claimed: at most one thread is running do_crawl
C27_SingleWorker ==
  Cardinality(Running) <= 1

\* C28 as claimed: while a worker is inside get_club_data with the shared
\* client, no other thread writes the client's credentials or calls
\* login_user on it
C28_OnlyWorkerWritesClient ==
  who.during = {}

\* the pages with hits the endpoint has served to the current player
NonEmptyServed == {o \in DOMAIN served : served[o].n > 0}

\* the worker is inside a player's paging loop
Paging == pc \in {"loop_head", "request", "reauth"}

\* C31: an iteration of the paging loop ends the loop, or adds one to
\* retry_count and keeps the cursor (for a 403 after its reauthentication),
\* or moves the cursor to the nextOffset of a page with hits; a player is
\* sent at most three requests more than the endpoint has pages with hits
\* for it; and the loop comes to an end
C31_PagingBounded ==
  /\ [][pc = "request" /\ pc' # pc
          => \/ pc' = "hist_poll"
             \/ pc' = "reauth" /\ UNCHANGED pageVars
             \/ /\ pc' = "loop_head"
                /\ retry_count' = retry_count + 1
                /\ offset' = offset
             \/ /\ pc' = "loop_head"
                /\ retry_count' = retry_count
                /\ served'[offset].n > 0
                /\ offset' = served'[offset].next]_vars
  /\ [][pc = "reauth" /\ pc' # pc
          => /\ pc' = "loop_head"
             /\ retry_count' = retry_count + 1
             /\ offset' = offset]_vars
  /\ [](stats.reqs <= Cardinality(NonEmptyServed) + 3)
  /\ [](retry_count <= 3)
  /\ Paging ~> ~Paging

\* one page with hits, two failures and the empty page that ends the loop:
\* four requests
C31_Witness ==
  /\ Finished
  /\ ended = "empty"
  /\ Cardinality(NonEmptyServed) = 1
  /\ stats.reqs = 4

\* the enrichment loop was left by its poll with members still to process
CutInEnrichment == PostEnrich /\ stop_event /\ idx <= Len(members)

\* C32: when the enrichment loop was left because its poll found the flag
\* set, no player's paging loop is entered, no page request and no
\* reauthentication is made, match_history stays empty and is returned
\* empty, and the members are returned in full; and a worker that finds the
\* flag set before its first call still makes the roster call
C32_CancelledEnrichmentSkipsHistory ==
  /\ [](CutInEnrichment =>
          /\ pc \in {"hist_poll", "done"}
          /\ last.kind = "detail" \/ last.kind = "roster"
          /\ stats = NoStats
          /\ match_history = EmptyMap
          /\ pc = "done" =>
               /\ result.match_history = EmptyMap
               /\ result.members = Truncate(Roster, max_members))
  /\ [][CutInEnrichment => CutInEnrichment']_vars
  /\ [][pc = "start" /\ stop_event /\ pc' # pc => last'.kind = "roster"]_vars

\* cancelled after the first of two members although both were selected
\* for history: both members and no history are returned
C32_Witness ==
  /\ pc = "done"
  /\ CutInEnrichment
  /\ idx = 2
  /\ Len(player_ids) = 2
  /\ Len(result.members) = 2
  /\ result.match_history = EmptyMap

\* a worker is inside get_club_data
Crawling == \E w \in Workers : threads[w].pc = "crawl"

\* C33 as claimed: while a worker is inside get_club_data, a flag that is
\* set stays set
C33_StopNotLost ==
  [][stop_event /\ Crawling => stop_event']_vars

\* the ways do_crawl ends without a result of get_club_data
NoData == {"number", "missing", "login", "roster"}

\* C34: a do_crawl whose get_club_data returned, in full or cut short by
\* cancellation, goes on to the export and passes that result to
\* export_to_excel, once; a do_crawl that ends by a refused number, missing
\* input, a login failure or a roster failure has exported nothing
C34_ExportsWhatWasReturned ==
  /\ [](\A w \in Workers :
          LET t == threads[w] IN
            /\ Len(t.exported) <= 1
            /\ t.pc = "export" => t.data # "none" /\ t.exported = <<>>
            /\ t.pc = "finally" =>
                 /\ t.how \in NoData \cup {"ok", "export"}
                 /\ t.how \in NoData =>
                      t.data = "none" /\ t.exported = <<>>
                 /\ t.how \notin NoData =>
                      t.data # "none" /\ t.exported = <<t.data>>)
  /\ [][\A w \in Workers :
          threads[w].pc = "crawl" /\ threads'[w].pc # "crawl" =>
            IF threads'[w].data = "none"
            THEN threads'[w].pc = "finally" /\ threads'[w].how = "roster"
            ELSE /\ threads'[w].pc = "export"
                 /\ stop_event => threads'[w].data = "partial"]_vars
  /\ [][\A w \in Workers :
          threads[w].pc = "export" /\ threads'[w].pc # "export" =>
            /\ threads'[w].pc = "finally"
            /\ threads'[w].exported = <<threads[w].data>>]_vars

\* a cancelled crawl has exported its partial result
C34_Witness ==
  \E w \in Workers :
    /\ threads[w].pc = "finally"
    /\ threads[w].how = "ok"
    /\ threads[w].data = "partial"
    /\ threads[w].exported = <<"partial">>
    /\ stop_event

\* Start enabled, Stop disabled, progress bar hidden
Idle ==
  /\ ~start_button.disabled
  /\ stop_button.disabled
  /\ ~progress.visible

\* C35 as claimed: when a do_crawl finishes the interface is idle, and the
\* Stop button is enabled only while a worker is running
C35_IdleAfterCrawl ==
  /\ [][\A w \in Workers :
          threads[w].pc = "disable_stop" /\ threads'[w].pc = "unborn"
            => Idle']_vars
  /\ [](Running = {} => stop_button.disabled)

====
